---- MODULE Spec2Model ----
(***************************************************************************)
(* Model of the NZDPU Playwright end-to-end suite: the page-readiness gate *)
(* (setupBaseState / injectClickVisualizer / dismissCookieBanner), the     *)
(* accessibility audit gate (checkA11y) and the test scenarios that call   *)
(* them.  A test body and every helper is a sequence of awaited steps; the *)
(* call stack, the pending exception and the page (consent banner, the     *)
(* current document and the registered init scripts) are the state.        *)
(* Time is counted in seconds: the 5000 ms and 3000 ms timeouts are 5, 3.  *)
(* Spec runs a free caller of the helpers of utils.ts, CopiesSpec one of   *)
(* either copy of the helpers, LiveSpec the free caller under a fair event *)
(* loop, SuiteSpec one scenario of the suite, ParallelSpec the scenarios   *)
(* the runner's workers run side by side, each on the page it was given.   *)
(***************************************************************************)
EXTENDS Integers, Sequences, FiniteSets, TLC

VARIABLES
    scenario,        \* name of the running test ("driver" for a free caller)
    contextName,     \* the contextName argument of checkA11y
    program,         \* the awaited steps of the test body
    stack,           \* call stack: frames [fn, ip], the last one is running
    exc,             \* the exception being thrown, "none" when none is
    outcome,         \* "running", "passed" or "failed": what the runner reports
    banner,          \* the 'allow all' control: "absent", "visible", "hidden"
    consent,         \* the site has recorded a click on 'allow all'
    doc,             \* the current document's click-visualizer state
    initScripts,     \* number of init scripts registered on the page
    elapsed,         \* seconds spent in the wait that is running
    clicks,          \* clicks on 'allow all' issued by the running gate call
    ret,             \* per helper: how its last call ended
    swallowed,       \* the exception the last catch block discarded
    thrown,          \* the exception that last left a gate call
    gateDone,        \* the gate returned normally since the last page.goto
    sawVisible,      \* the control was visible during the running gate call
    bannerAtCall,    \* the control's state when the last gate call began
    pageAtCall,      \* the page's state when dismissCookieBanner was last called
    loadedWith,      \* init scripts registered when the document was loaded
    bannerAtReturn,  \* the control's state when that call returned, or "none"
    setupsOnDoc,     \* setupBaseState calls made on the current document
    armedDoc,        \* the document was loaded after a setupBaseState returned
    isBannerVisible, \* the local of the cookie-banner test
    ungatedAssert,   \* an assertion was evaluated with the gate not done
    asserted,        \* an assertion was evaluated
    results,         \* results.violations of the audit, NoResults before it
    critical,        \* the filtered critical findings
    log,             \* console.log records
    verdict,         \* "none", "pass" or "fail": the audit's expect
    failure,         \* message of the failed audit expect
    helperCopy,      \* the copy of the helpers in use: "utils" or "blueprint"
    dismissCopy,     \* the copy of dismissCookieBanner in use
    started,         \* scenarios the runner has started, over all workers
    testOf,          \* per worker: the scenario it runs, 0 when idle
    handle,          \* per worker: the page its scenario was given, 0 when none
    wpc,             \* per worker: where its scenario stands
    sitePages,       \* per page: the banner, the consent of its context, and
                     \* the scenario whose gate recorded that consent
    ipc,             \* the site inspector: the statement of main it is at
    idx,             \* its position in PAGES
    istep,           \* the awaited step of inspectPage it is at
    launched,        \* chromium.launch has resolved
    closeCalled,     \* browser.close has been called
    attempted,       \* names of the pages inspectPage was called for, in order
    failedOn,        \* pageName of each inspectPage call that threw, in order
    errLog           \* the console.error lines, in order

vars == <<scenario, contextName, program, stack, exc, outcome, banner, consent,
          doc, initScripts, elapsed, clicks, ret, swallowed, thrown, gateDone,
          sawVisible, bannerAtCall, pageAtCall, loadedWith, bannerAtReturn, setupsOnDoc, armedDoc,
          isBannerVisible, ungatedAssert, asserted, results, critical, log,
          verdict, failure, helperCopy, dismissCopy, started, testOf, handle, wpc,
          sitePages, ipc, idx, istep, launched, closeCalled, attempted,
          failedOn, errLog>>

pageVars == <<banner, consent, doc, initScripts>>
auditVars == <<results, critical, log, verdict, failure>>
parVars == <<started, testOf, handle, wpc, sitePages>>
inspVars == <<ipc, idx, istep, launched, closeCalled, attempted, failedOn, errLog>>
histVars == <<swallowed, thrown, gateDone, sawVisible, bannerAtCall, pageAtCall, loadedWith, bannerAtReturn,
              setupsOnDoc, armedDoc, ungatedAssert, asserted>>

----------------------------------------------------------------------------
(* Bounds of the model *)

MaxSteps == 4        \* awaited steps of a free caller's test body
MaxFindings == 3     \* findings one audit returns
MaxWorkers == 2      \* workers of the runner
MaxTests == 3        \* scenarios the runner starts in one run

(* Program constants *)

VisibleTimeout == 5  \* waitFor({ state: "visible", timeout: 5000 })
HiddenTimeout == 3   \* waitFor({ state: "hidden", timeout: 3000 })

----------------------------------------------------------------------------
(* The helpers as sequences of awaited steps.  A step that names a helper  *)
(* is a call of it; every other step is a page operation.                  *)

GateFns == {"setupBaseState", "dismissCookieBanner"}
Fns == GateFns \cup {"injectClickVisualizer", "checkA11y"}

InjectClickVisualizerBody == <<"addInitScript", "evaluate">>

\* the older copy kept in data-model-blueprint.spec.ts: addInitScript only
BlueprintInjectClickVisualizerBody == <<"addInitScript">>

\* dismissCookieBanner installing the visualizer itself
DismissCookieBannerBody_withInstall ==
    <<"evaluate", "waitVisible", "click", "waitHidden">>

\* dismissCookieBanner clicking before it waited for the control
DismissCookieBannerBody_clickFirst == <<"click", "waitVisible", "waitHidden">>

\* dismissCookieBanner returning right after its click
DismissCookieBannerBody_noHiddenWait == <<"waitVisible", "click">>

DismissCookieBannerBody == <<"waitVisible", "click", "waitHidden">>

\* The copies of dismissCookieBanner: their awaited steps, the timeouts of
\* their two waits in seconds, and whether their handler takes everything.

\* a copy of the homepage helper with a shorter visible-wait
HomepageDismissCookieBanner_shortWait ==
    [steps |-> <<"waitVisible", "click", "waitHidden">>,
     visible |-> 3, hidden |-> 3, catchAll |-> TRUE]

\* src/tests/utils.ts
UtilsDismissCookieBanner ==
    [steps |-> DismissCookieBannerBody,
     visible |-> VisibleTimeout, hidden |-> HiddenTimeout, catchAll |-> TRUE]

\* src/unnamed/part_000: catch (error) { }
PartDismissCookieBanner ==
    [steps |-> <<"waitVisible", "click", "waitHidden">>,
     visible |-> 5, hidden |-> 3, catchAll |-> TRUE]

\* src/tests/homepage.spec.ts: catch { }
HomepageDismissCookieBanner ==
    [steps |-> <<"waitVisible", "click", "waitHidden">>,
     visible |-> 5, hidden |-> 3, catchAll |-> TRUE]

\* src/tests/data-model-blueprint.spec.ts: catch (error) { }
BlueprintDismissCookieBanner ==
    [steps |-> <<"waitVisible", "click", "waitHidden">>,
     visible |-> 5, hidden |-> 3, catchAll |-> TRUE]

DismissCopies == {"utils", "part_000", "homepage", "blueprint"}

DismissCopy(c) ==
    CASE c = "utils"     -> UtilsDismissCookieBanner
      [] c = "part_000"  -> PartDismissCookieBanner
      [] c = "homepage"  -> HomepageDismissCookieBanner
      [] c = "blueprint" -> BlueprintDismissCookieBanner

SetupBaseStateBody == <<"injectClickVisualizer", "dismissCookieBanner">>

\* checkA11y with the analysis started before the gate ran
CheckA11yBody_analyzeFirst == <<"analyze", "setupBaseState", "filterLog", "expect">>

CheckA11yBody == <<"setupBaseState", "analyze", "filterLog", "expect">>

\* the rejections of the gate's waits that are timeouts
Timeouts == {"visibleTimeout", "hiddenTimeout"}

\* dismissCookieBanner without its try/catch
Handles_none(fn, e) == FALSE

\* a handler that rethrows what is not a timeout
Handles_timeoutsOnly(fn, e) == fn = "dismissCookieBanner" /\ e \in Timeouts

\* the whole body of dismissCookieBanner is a try block whose handler,
\* catch { }, takes every exception e; no other function has a handler
Handles(fn, e) ==
    fn = "dismissCookieBanner" /\ DismissCopy(dismissCopy).catchAll

----------------------------------------------------------------------------
(* The scenarios of the suite, by the shape of beforeEach + test body.     *)

SuiteScenarios == {"setupHook", "dismissHook", "subPage", "tapNav",
                   "cookieBanner", "a11y"}

ContextNames == {"Homepage", "Companies Page", "Data Explorer",
                 "Data Model Blueprint", "About Page"}

\* beforeEach: page.goto + setupBaseState; test: content assertions
SetupHookTest == <<"goto", "setupBaseState", "assert">>

\* beforeEach: page.goto + dismissCookieBanner; test: content assertions
DismissHookTest == <<"goto", "dismissCookieBanner", "assert">>

\* the sub-page tests without the gate after their own page.goto
SubPageTest_noSecondGate == <<"goto", "dismissCookieBanner", "goto", "assert">>

\* beforeEach as above; test: page.goto to the sub-page, dismissCookieBanner
\* again, content assertions
SubPageTest == <<"goto", "dismissCookieBanner",
                 "goto", "dismissCookieBanner", "assert">>

\* beforeEach as above; test: click 'View Data Model', wait for the URL,
\* assert on it
TapNavTest == <<"goto", "dismissCookieBanner", "clickNav", "assert">>

\* 'cookie banner may appear with consent options': no gate call
CookieBannerTest == <<"goto", "isVisible", "expectBannerVisible">>

\* the accessibility tests: page.goto + checkA11y
A11yTest == <<"goto", "checkA11y">>

ScenarioBody(s) ==
    CASE s = "setupHook"    -> SetupHookTest
      [] s = "dismissHook"  -> DismissHookTest
      [] s = "subPage"      -> SubPageTest
      [] s = "tapNav"       -> TapNavTest
      [] s = "cookieBanner" -> CookieBannerTest
      [] s = "a11y"         -> A11yTest

\* what a free caller may await on its page
DriverOps == {"goto", "setupBaseState", "dismissCookieBanner"}

RECURSIVE SeqsUpTo(_, _)
SeqsUpTo(S, n) ==
    IF n = 0 THEN {<<>>}
    ELSE LET shorter == SeqsUpTo(S, n - 1)
         IN  shorter \cup {Append(p, x) : p \in shorter, x \in S}

\* a caller navigates first (the gate's precondition), then does anything
DriverPrograms == {<<"goto">> \o p : p \in SeqsUpTo(DriverOps, MaxSteps - 1)}

Body(fn) ==
    CASE fn = "test"                  -> program
      [] fn = "setupBaseState"        -> SetupBaseStateBody
      [] fn = "injectClickVisualizer" ->
            IF helperCopy = "utils" THEN InjectClickVisualizerBody
            ELSE BlueprintInjectClickVisualizerBody
      [] fn = "dismissCookieBanner"   -> DismissCopy(dismissCopy).steps
      [] fn = "checkA11y"             -> CheckA11yBody

----------------------------------------------------------------------------
(* The click visualizer and the documents it is installed in.              *)

FreshDoc == [flag |-> FALSE, style |-> 0, cursor |-> 0, listeners |-> 0,
             runs |-> 0]

\* clickVisualizerScript run in document d; head and body tell whether
\* document.head and document.body exist when it runs.  A missing one makes
\* appendChild throw a TypeError after the flag was set.
\* the install script without its guard on the flag
clickVisualizerScript_noGuard(d, head, body) ==
    LET d1 == [d EXCEPT !.runs = @ + 1, !.flag = TRUE]
        d2 == [d1 EXCEPT !.style = @ + 1]
        d3 == [d2 EXCEPT !.cursor = @ + 1, !.listeners = @ + 4]
    IN  IF ~head THEN [doc |-> d1, threw |-> TRUE]
        ELSE IF ~body THEN [doc |-> d2, threw |-> TRUE]
        ELSE [doc |-> d3, threw |-> FALSE]

clickVisualizerScript(d, head, body) ==
    IF d.flag THEN [doc |-> [d EXCEPT !.runs = @ + 1], threw |-> FALSE]
    ELSE LET d1 == [d EXCEPT !.runs = @ + 1, !.flag = TRUE]
             d2 == [d1 EXCEPT !.style = @ + 1]
             d3 == [d2 EXCEPT !.cursor = @ + 1, !.listeners = @ + 4]
         IN  IF ~head THEN [doc |-> d1, threw |-> TRUE]
             ELSE IF ~body THEN [doc |-> d2, threw |-> TRUE]
             ELSE [doc |-> d3, threw |-> FALSE]

\* a new document runs the n registered init scripts, in order, before the
\* page's own content exists; an init script's exception stays in the page
RECURSIVE RunInitScripts(_, _, _, _)
RunInitScripts(d, n, head, body) ==
    IF n = 0 THEN d
    ELSE RunInitScripts(clickVisualizerScript(d, head, body).doc, n - 1, head, body)

Installed(d) == d.style = 1 /\ d.cursor = 1 /\ d.listeners = 4

\* the init script of the older copy: a flag and one click listener on
\* document, neither of which needs document.head or document.body
blueprintVisualizerScript(d) ==
    IF d.flag THEN [d EXCEPT !.runs = @ + 1]
    ELSE [d EXCEPT !.runs = @ + 1, !.flag = TRUE, !.listeners = @ + 1]

RECURSIVE RunBlueprintInitScripts(_, _)
RunBlueprintInitScripts(d, n) ==
    IF n = 0 THEN d
    ELSE RunBlueprintInitScripts(blueprintVisualizerScript(d), n - 1)

\* the document a navigation loads, with n init scripts registered
NewDocument(copy, n, head, body) ==
    IF copy = "utils" THEN RunInitScripts(FreshDoc, n, head, body)
    ELSE RunBlueprintInitScripts(FreshDoc, n)

\* the visualizer of the copy in use reacts to a click in document d
Active(copy, d) ==
    IF copy = "utils" THEN Installed(d) ELSE d.listeners = 1

\* the DOM states an init script can find: nothing, head only, head and body
DomStates == {<<FALSE, FALSE>>, <<TRUE, FALSE>>, <<TRUE, TRUE>>}

----------------------------------------------------------------------------
(* The audit's findings.                                                   *)

Impacts == {"critical", "serious", "moderate", "minor", "null"}
Finding == [impact : Impacts]
FindingLists == SeqsUpTo(Finding, MaxFindings)
NoResults == <<[impact |-> "unset"]>>

IsCritical(v) == v.impact = "critical"

IsCriticalOrSerious(v) == v.impact \in {"critical", "serious"}

\* a filter that also keeps the serious findings
CriticalOf_seriousToo(violations) == SelectSeq(violations, IsCriticalOrSerious)

\* a filter that looks at the first finding only
CriticalOf_firstOnly(violations) ==
    SelectSeq(SubSeq(violations, 1, IF Len(violations) > 0 THEN 1 ELSE 0),
              IsCritical)

\* results.violations.filter((v) => v.impact === "critical")
CriticalOf(violations) == SelectSeq(violations, IsCritical)

\* a log that skips single findings
ShouldLog_moreThanOne(violations) == Len(violations) > 1

\* the condition of the console.log
ShouldLog(violations) == Len(violations) > 0

\* a record that also carries the critical count
LogRecord_withCritical(ctx, violations) ==
    [context |-> ctx, total |-> Len(violations),
     critical |-> Len(SelectSeq(violations, IsCritical))]

\* a record whose count is that of the critical findings
LogRecord_totalCritical(ctx, violations) ==
    [context |-> ctx, total |-> Len(SelectSeq(violations, IsCritical))]

\* `[A11y] ${contextName}: ${results.violations.length} violations`
LogRecord(ctx, violations) == [context |-> ctx, total |-> Len(violations)]

----------------------------------------------------------------------------
(* The call stack.                                                         *)

Top == stack[Len(stack)]
Running == stack /= <<>> /\ exc = "none" /\ outcome = "running"
AtEnd == Top.ip > Len(Body(Top.fn))
CurStep == IF Running /\ ~AtEnd THEN Body(Top.fn)[Top.ip] ELSE "none"
Advance == [stack EXCEPT ![Len(stack)].ip = @ + 1]
Pop == SubSeq(stack, 1, Len(stack) - 1)
InGate == \E i \in 1..Len(stack) : stack[i].fn \in GateFns
\* the running frame is a gate call made by a test or by checkA11y
OutermostGate ==
    /\ Top.fn \in GateFns
    /\ \A i \in 1..(Len(stack) - 1) : stack[i].fn \notin GateFns

\* the pages the site inspector crawls
PAGES == <<[name |-> "Homepage", path |-> "/"],
           [name |-> "Companies", path |-> "/companies"],
           [name |-> "DataExplorer", path |-> "/data-explorer"],
           [name |-> "DataModelBlueprint", path |-> "/data-model-blueprint"],
           [name |-> "About", path |-> "/about"],
           [name |-> "Documentation", path |-> "/documentation"],
           [name |-> "FAQ", path |-> "/faq"],
           [name |-> "ContactUs", path |-> "/contact-us"],
           [name |-> "PrivacyPolicy", path |-> "/privacy-policy"],
           [name |-> "TermsOfService", path |-> "/terms-of-service"],
           [name |-> "NewsAndPublications", path |-> "/news-and-publications"]>>

PageNames == [i \in 1..Len(PAGES) |-> PAGES[i].name]

\* the awaited steps of inspectPage: goto, waitForTimeout, title, the eight
\* page.evaluate calls and the screenshot
InspectPageBody ==
    <<"goto", "waitForTimeout", "title", "evaluate", "evaluate", "evaluate",
      "evaluate", "evaluate", "evaluate", "evaluate", "evaluate", "screenshot">>

\* what a helper can change in the page
PageState == [banner |-> banner, consent |-> consent, doc |-> doc,
              initScripts |-> initScripts]

\* the workers of the runner, and a page nobody has used
Workers == 1..MaxWorkers
FreshPage == [banner |-> "absent", consent |-> FALSE, consentBy |-> 0]

TypeOK ==
    /\ scenario \in SuiteScenarios \cup {"driver", "parallel", "inspector"}
    /\ ipc \in {"mkdir", "launch", "newContext", "newPage", "loop", "inspect",
                "catch", "close", "exited", "crashed"}
    /\ idx \in 1..(Len(PAGES) + 1)
    /\ istep \in 1..(Len(InspectPageBody) + 1)
    /\ helperCopy \in {"utils", "blueprint"}
    /\ dismissCopy \in DismissCopies
    /\ started \in 0..MaxTests
    /\ \A w \in Workers : handle[w] \in 0..MaxTests /\ testOf[w] \in 0..MaxTests
    /\ outcome \in {"running", "passed", "failed"}
    /\ banner \in {"absent", "visible", "hidden"}
    /\ consent \in BOOLEAN
    /\ initScripts \in 0..(MaxSteps + 1)
    /\ elapsed \in 0..VisibleTimeout
    /\ clicks \in 0..1
    /\ ret \in [Fns -> {"none", "returned", "threw"}]
    /\ verdict \in {"none", "pass", "fail"}

InitCommon ==
    /\ stack = <<[fn |-> "test", ip |-> 1]>>
    /\ exc = "none"
    /\ outcome = "running"
    /\ banner = "absent"
    /\ consent = FALSE
    /\ doc = FreshDoc
    /\ initScripts = 0
    /\ elapsed = 0
    /\ clicks = 0
    /\ ret = [f \in Fns |-> "none"]
    /\ swallowed = "none"
    /\ thrown = "none"
    /\ gateDone = FALSE
    /\ sawVisible = FALSE
    /\ bannerAtCall = "none"
    /\ pageAtCall = PageState
    /\ loadedWith = 0
    /\ bannerAtReturn = "none"
    /\ setupsOnDoc = 0
    /\ armedDoc = FALSE
    /\ isBannerVisible = FALSE
    /\ ungatedAssert = FALSE
    /\ asserted = FALSE
    /\ results = NoResults
    /\ critical = <<>>
    /\ log = <<>>
    /\ verdict = "none"
    /\ failure = "none"
    /\ started = 0
    /\ testOf = [w \in Workers |-> 0]
    /\ handle = [w \in Workers |-> 0]
    /\ wpc = [w \in Workers |-> "idle"]
    /\ sitePages = [p \in 1..MaxTests |-> FreshPage]
    /\ ipc = "mkdir"
    /\ idx = 1
    /\ istep = 1
    /\ launched = FALSE
    /\ closeCalled = FALSE
    /\ attempted = <<>>
    /\ failedOn = <<>>
    /\ errLog = <<>>

\* a free caller: any sequence of navigations and gate calls on one page
Init ==
    /\ scenario = "driver"
    /\ contextName = "none"
    /\ program \in DriverPrograms
    /\ helperCopy = "utils"
    /\ dismissCopy = "utils"
    /\ InitCommon

\* one scenario of the suite
SuiteInit ==
    /\ scenario \in SuiteScenarios
    /\ contextName \in (IF scenario = "a11y" THEN ContextNames ELSE {"none"})
    /\ program = ScenarioBody(scenario)
    /\ helperCopy = "utils"
    /\ dismissCopy = "utils"
    /\ InitCommon

----------------------------------------------------------------------------
(* Calls, returns and exceptions.                                          *)

cfgVars == <<scenario, contextName, program, helperCopy, dismissCopy, parVars,
             inspVars>>

\* an awaited step names a helper: its frame is pushed
Call ==
    /\ CurStep \in Fns
    /\ stack' = Append(stack, [fn |-> CurStep, ip |-> 1])
    /\ IF CurStep \in GateFns /\ ~InGate
       THEN /\ sawVisible' = (banner = "visible")
            /\ bannerAtCall' = banner
            /\ bannerAtReturn' = "none"
            /\ clicks' = 0
            /\ swallowed' = "none"
            /\ thrown' = "none"
       ELSE UNCHANGED <<sawVisible, bannerAtCall, bannerAtReturn, clicks,
                        swallowed, thrown>>
    /\ pageAtCall' = IF CurStep = "dismissCookieBanner" THEN PageState
                     ELSE pageAtCall
    /\ setupsOnDoc' = IF CurStep = "setupBaseState" THEN setupsOnDoc + 1
                      ELSE setupsOnDoc
    /\ elapsed' = 0
    /\ UNCHANGED <<cfgVars, exc, outcome, pageVars, ret, gateDone, armedDoc,
                   loadedWith, isBannerVisible, ungatedAssert, asserted,
                   auditVars>>

\* the running function reached its end: control returns to its caller,
\* or the test body ended and the runner reports the test passed
Return ==
    /\ Running
    /\ AtEnd
    /\ stack' = IF Len(stack) = 1 THEN <<>>
                ELSE [Pop EXCEPT ![Len(stack) - 1].ip = @ + 1]
    /\ outcome' = IF Len(stack) = 1 THEN "passed" ELSE outcome
    /\ ret' = IF Top.fn \in Fns THEN [ret EXCEPT ![Top.fn] = "returned"] ELSE ret
    /\ IF OutermostGate
       THEN gateDone' = TRUE /\ bannerAtReturn' = banner
       ELSE UNCHANGED <<gateDone, bannerAtReturn>>
    /\ UNCHANGED <<cfgVars, exc, pageVars, elapsed, clicks, swallowed, thrown,
                   sawVisible, bannerAtCall, pageAtCall, loadedWith, setupsOnDoc, armedDoc,
                   isBannerVisible, ungatedAssert, asserted, auditVars>>

\* try { ... } catch { }: the exception is discarded and the function ends
Catch ==
    /\ stack /= <<>>
    /\ outcome = "running"
    /\ exc /= "none"
    /\ Handles(Top.fn, exc)
    /\ exc' = "none"
    /\ swallowed' = exc
    /\ stack' = [stack EXCEPT ![Len(stack)].ip = Len(Body(Top.fn)) + 1]
    /\ elapsed' = 0
    /\ UNCHANGED <<cfgVars, outcome, pageVars, clicks, ret, thrown,
                   gateDone, sawVisible, bannerAtCall, pageAtCall, loadedWith, bannerAtReturn, setupsOnDoc, armedDoc,
                   isBannerVisible, ungatedAssert, asserted, auditVars>>

\* no handler in the running function: the exception leaves it; when it
\* leaves the test body the runner reports the test failed
Propagate ==
    /\ stack /= <<>>
    /\ outcome = "running"
    /\ exc /= "none"
    /\ ~Handles(Top.fn, exc)
    /\ stack' = Pop
    /\ outcome' = IF Len(stack) = 1 THEN "failed" ELSE outcome
    /\ ret' = IF Top.fn \in Fns THEN [ret EXCEPT ![Top.fn] = "threw"] ELSE ret
    /\ thrown' = IF OutermostGate THEN exc ELSE thrown
    /\ elapsed' = 0
    /\ UNCHANGED <<cfgVars, exc, pageVars, clicks, swallowed, gateDone,
                   sawVisible, bannerAtCall, pageAtCall, loadedWith, bannerAtReturn, setupsOnDoc, armedDoc,
                   isBannerVisible, ungatedAssert, asserted, auditVars>>

----------------------------------------------------------------------------
(* Page operations of the gate.                                            *)

\* page.goto(url, { waitUntil: "networkidle" }): a new document, in which
\* the registered init scripts ran before its content existed
Goto ==
    /\ CurStep = "goto"
    /\ \/ /\ \E dom \in DomStates :
                doc' = NewDocument(helperCopy, initScripts, dom[1], dom[2])
          /\ banner' = "absent"
          /\ gateDone' = FALSE
          /\ setupsOnDoc' = 0
          /\ armedDoc' = (ret["setupBaseState"] = "returned")
          /\ loadedWith' = initScripts
          /\ stack' = Advance
          /\ UNCHANGED exc
       \/ /\ exc' = "navigationError"
          /\ UNCHANGED <<stack, doc, banner, gateDone, setupsOnDoc, armedDoc,
                         loadedWith>>
    /\ UNCHANGED <<cfgVars, outcome, consent, initScripts, elapsed, clicks, ret,
                   swallowed, thrown, sawVisible, bannerAtCall, pageAtCall, bannerAtReturn,
                   isBannerVisible, ungatedAssert, asserted, auditVars>>

\* await page.addInitScript(clickVisualizerScript)
AddInitScript ==
    /\ CurStep = "addInitScript"
    /\ \/ /\ initScripts' = initScripts + 1
          /\ stack' = Advance
          /\ UNCHANGED exc
       \/ /\ exc' = "installError"
          /\ UNCHANGED <<stack, initScripts>>
    /\ UNCHANGED <<cfgVars, outcome, banner, consent, doc, elapsed, clicks, ret,
                   histVars, isBannerVisible, auditVars>>

\* await page.evaluate(clickVisualizerScript): the script runs in the
\* current, loaded document (head and body exist)
Evaluate ==
    /\ CurStep = "evaluate"
    /\ \/ LET r == clickVisualizerScript(doc, TRUE, TRUE)
          IN  /\ doc' = r.doc
              /\ IF r.threw
                 THEN exc' = "scriptError" /\ UNCHANGED stack
                 ELSE stack' = Advance /\ UNCHANGED exc
       \/ /\ exc' = "installError"
          /\ UNCHANGED <<stack, doc>>
    /\ UNCHANGED <<cfgVars, outcome, banner, consent, initScripts, elapsed,
                   clicks, ret, histVars, isBannerVisible, auditVars>>

Timeout(step) ==
    IF step = "waitVisible" THEN DismissCopy(dismissCopy).visible
    ELSE DismissCopy(dismissCopy).hidden

\* a second passes in the wait that is running
Tick ==
    /\ CurStep \in {"waitVisible", "waitHidden"}
    /\ elapsed < Timeout(CurStep)
    /\ elapsed' = elapsed + 1
    /\ UNCHANGED <<cfgVars, stack, exc, outcome, pageVars, clicks, ret,
                   histVars, isBannerVisible, auditVars>>

\* allowBtn.waitFor({ state: "visible", timeout: 5000 }) resolves
WaitVisibleResolves ==
    /\ CurStep = "waitVisible"
    /\ banner = "visible"
    /\ stack' = Advance
    /\ elapsed' = 0
    /\ UNCHANGED <<cfgVars, exc, outcome, pageVars, clicks, ret, histVars,
                   isBannerVisible, auditVars>>

\* a visible-wait without a timeout
WaitVisibleTimeout_never ==
    /\ CurStep = "waitVisible"
    /\ FALSE
    /\ UNCHANGED vars

\* ... or rejects with a TimeoutError after 5 s
WaitVisibleTimeout ==
    /\ CurStep = "waitVisible"
    /\ banner /= "visible"
    /\ elapsed = Timeout("waitVisible")
    /\ exc' = "visibleTimeout"
    /\ UNCHANGED <<cfgVars, stack, outcome, pageVars, elapsed, clicks, ret, histVars,
                   isBannerVisible, auditVars>>

\* either wait rejects for another reason (the page or context is gone)
WaitError ==
    /\ CurStep \in {"waitVisible", "waitHidden"}
    /\ exc' = "pageError"
    /\ UNCHANGED <<cfgVars, stack, outcome, pageVars, elapsed, clicks, ret, histVars,
                   isBannerVisible, auditVars>>

\* await allowBtn.click(): the site records the consent, or the click fails
Click ==
    /\ CurStep = "click"
    /\ \/ /\ banner = "visible"
          /\ clicks' = clicks + 1
          /\ consent' = TRUE
          /\ stack' = Advance
          /\ UNCHANGED exc
       \/ /\ exc' = "clickError"
          /\ UNCHANGED <<stack, clicks, consent>>
    /\ UNCHANGED <<cfgVars, outcome, banner, doc, initScripts, elapsed, ret,
                   histVars, isBannerVisible, auditVars>>

\* allowBtn.waitFor({ state: "hidden", timeout: 3000 }) resolves
WaitHiddenResolves ==
    /\ CurStep = "waitHidden"
    /\ banner /= "visible"
    /\ stack' = Advance
    /\ elapsed' = 0
    /\ UNCHANGED <<cfgVars, exc, outcome, pageVars, clicks, ret, histVars,
                   isBannerVisible, auditVars>>

\* ... or rejects with a TimeoutError after 3 s
WaitHiddenTimeout ==
    /\ CurStep = "waitHidden"
    /\ banner = "visible"
    /\ elapsed = Timeout("waitHidden")
    /\ exc' = "hiddenTimeout"
    /\ UNCHANGED <<cfgVars, stack, outcome, pageVars, elapsed, clicks, ret, histVars,
                   isBannerVisible, auditVars>>

----------------------------------------------------------------------------
(* The site under test.                                                    *)

\* the site renders the consent banner (no consent recorded yet)
BannerAppears ==
    /\ outcome = "running"
    /\ banner = "absent"
    /\ ~consent
    /\ banner' = "visible"
    /\ sawVisible' = (sawVisible \/ InGate)
    /\ UNCHANGED <<cfgVars, stack, exc, outcome, consent, doc, initScripts,
                   elapsed, clicks, ret, swallowed, thrown, gateDone,
                   bannerAtCall, pageAtCall, loadedWith, bannerAtReturn, setupsOnDoc, armedDoc, isBannerVisible,
                   ungatedAssert, asserted, auditVars>>

\* the site removes the banner after the consent was recorded
BannerHides ==
    /\ outcome = "running"
    /\ banner = "visible"
    /\ consent
    /\ banner' = "hidden"
    /\ UNCHANGED <<cfgVars, stack, exc, outcome, consent, doc, initScripts,
                   elapsed, clicks, ret, histVars, isBannerVisible, auditVars>>

----------------------------------------------------------------------------
(* Steps of the test bodies and of checkA11y.                              *)

AssertionEvaluated ==
    /\ asserted' = TRUE
    /\ ungatedAssert' = (ungatedAssert \/ ~gateDone)

\* await viewModel.click(); await page.waitForURL(...): the click fails or
\* times out, the application changes its route in the same document, or
\* a new document is loaded
ClickNav ==
    /\ CurStep = "clickNav"
    /\ \/ /\ exc' = "clickError"
          /\ UNCHANGED <<stack, doc, banner, setupsOnDoc, armedDoc, loadedWith>>
       \/ /\ stack' = Advance
          /\ UNCHANGED <<exc, doc, banner, setupsOnDoc, armedDoc, loadedWith>>
       \/ /\ \E dom \in DomStates :
                doc' = NewDocument(helperCopy, initScripts, dom[1], dom[2])
          /\ banner' = "absent"
          /\ setupsOnDoc' = 0
          /\ armedDoc' = (ret["setupBaseState"] = "returned")
          /\ loadedWith' = initScripts
          /\ stack' = Advance
          /\ UNCHANGED exc
    /\ UNCHANGED <<cfgVars, outcome, consent, initScripts, elapsed, clicks, ret,
                   swallowed, thrown, gateDone, sawVisible, bannerAtCall, pageAtCall, bannerAtReturn,
                   isBannerVisible, ungatedAssert, asserted, auditVars>>

\* a content assertion of a test body, await expect(...)...: it holds or not
ContentAssert ==
    /\ CurStep = "assert"
    /\ AssertionEvaluated
    /\ \/ stack' = Advance /\ UNCHANGED exc
       \/ exc' = "assertionError" /\ UNCHANGED stack
    /\ UNCHANGED <<cfgVars, outcome, pageVars, elapsed, clicks, ret, swallowed,
                   thrown, gateDone, sawVisible, bannerAtCall, pageAtCall, loadedWith, bannerAtReturn, setupsOnDoc,
                   armedDoc, isBannerVisible, auditVars>>

\* a probe that always reports the banner
IsVisible_alwaysTrue ==
    /\ CurStep = "isVisible"
    /\ isBannerVisible' = TRUE
    /\ stack' = Advance
    /\ UNCHANGED <<cfgVars, exc, outcome, pageVars, elapsed, clicks, ret,
                   histVars, auditVars>>

\* const isBannerVisible = await allowBtn.isVisible().catch(() => false)
IsVisible ==
    /\ CurStep = "isVisible"
    /\ \/ isBannerVisible' = (banner = "visible")
       \/ isBannerVisible' = FALSE
    /\ stack' = Advance
    /\ UNCHANGED <<cfgVars, exc, outcome, pageVars, elapsed, clicks, ret,
                   histVars, auditVars>>

\* if (isBannerVisible) { await expect(allowBtn).toBeVisible(); }
ExpectBannerVisible ==
    /\ CurStep = "expectBannerVisible"
    /\ IF isBannerVisible
       THEN /\ AssertionEvaluated
            /\ IF banner = "visible"
               THEN stack' = Advance /\ UNCHANGED exc
               ELSE exc' = "assertionError" /\ UNCHANGED stack
       ELSE /\ stack' = Advance
            /\ UNCHANGED <<exc, asserted, ungatedAssert>>
    /\ UNCHANGED <<cfgVars, outcome, pageVars, elapsed, clicks, ret, swallowed,
                   thrown, gateDone, sawVisible, bannerAtCall, pageAtCall, loadedWith, bannerAtReturn, setupsOnDoc,
                   armedDoc, isBannerVisible, auditVars>>

\* const results = await new AxeBuilder({ page }).withTags([...]).analyze()
Analyze ==
    /\ CurStep = "analyze"
    /\ \/ /\ \E F \in FindingLists : results' = F
          /\ stack' = Advance
          /\ UNCHANGED exc
       \/ /\ exc' = "analyzeError"
          /\ UNCHANGED <<stack, results>>
    /\ UNCHANGED <<cfgVars, outcome, pageVars, elapsed, clicks, ret, histVars,
                   isBannerVisible, critical, log, verdict, failure>>

\* const critical = results.violations.filter(...);
\* if (results.violations.length > 0) { console.log(...); }
FilterLog ==
    /\ CurStep = "filterLog"
    /\ critical' = CriticalOf(results)
    /\ log' = IF ShouldLog(results)
              THEN Append(log, LogRecord(contextName, results))
              ELSE log
    /\ stack' = Advance
    /\ UNCHANGED <<cfgVars, exc, outcome, pageVars, elapsed, clicks, ret,
                   histVars, isBannerVisible, results, verdict, failure>>

\* expect(critical.length, message).toBe(0)
ExpectPasses(crit) == Len(crit) = 0

\* a failure message without the page's name
FailureMessage_noContext(ctx, crit) ==
    [message |-> "Critical a11y violations", context |-> "none",
     expected |-> 0, received |-> Len(crit)]

FailureMessage(ctx, crit) ==
    [message |-> "Critical a11y violations on", context |-> ctx,
     expected |-> 0, received |-> Len(crit)]

Expect ==
    /\ CurStep = "expect"
    /\ AssertionEvaluated
    /\ IF ExpectPasses(critical)
       THEN /\ verdict' = "pass"
            /\ stack' = Advance
            /\ UNCHANGED <<exc, failure>>
       ELSE /\ verdict' = "fail"
            /\ failure' = FailureMessage(contextName, critical)
            /\ exc' = "assertionError"
            /\ UNCHANGED stack
    /\ UNCHANGED <<cfgVars, outcome, pageVars, elapsed, clicks, ret, swallowed,
                   thrown, gateDone, sawVisible, bannerAtCall, pageAtCall, loadedWith, bannerAtReturn, setupsOnDoc,
                   armedDoc, isBannerVisible, results, critical, log>>

GateNext ==
    \/ Call
    \/ Return
    \/ Catch
    \/ Propagate
    \/ Goto
    \/ AddInitScript
    \/ Evaluate
    \/ Tick
    \/ WaitVisibleResolves
    \/ WaitVisibleTimeout
    \/ WaitError
    \/ Click
    \/ WaitHiddenResolves
    \/ WaitHiddenTimeout
    \/ BannerAppears
    \/ BannerHides

Next == GateNext

Spec == Init /\ [][Next]_vars

\* a free caller that uses either copy of the helpers
CopiesInit ==
    /\ scenario = "driver"
    /\ contextName = "none"
    /\ program \in DriverPrograms
    /\ helperCopy \in {"utils", "blueprint"}
    /\ dismissCopy = helperCopy
    /\ InitCommon

CopiesSpec == CopiesInit /\ [][Next]_vars

\* a free caller of the helpers of utils.ts with any one of the copies of
\* dismissCookieBanner in the place of its own
DismissCopiesInit ==
    /\ scenario = "driver"
    /\ contextName = "none"
    /\ program \in DriverPrograms
    /\ helperCopy = "utils"
    /\ dismissCopy \in DismissCopies
    /\ InitCommon

DismissCopiesSpec == DismissCopiesInit /\ [][Next]_vars

\* the steps the test's own flow takes: the event loop resumes an awaited
\* call when it settles, the clock advances, a timeout that is due fires.
\* The site's changes and the loss of the page are not among them.
ProgramStep ==
    \/ Call
    \/ Return
    \/ Catch
    \/ Propagate
    \/ Goto
    \/ AddInitScript
    \/ Evaluate
    \/ Tick
    \/ WaitVisibleResolves
    \/ WaitVisibleTimeout
    \/ Click
    \/ WaitHiddenResolves
    \/ WaitHiddenTimeout

\* the free caller under a scheduler that keeps running the test's flow
LiveSpec == Init /\ [][Next]_vars /\ WF_vars(ProgramStep)

SuiteNext ==
    \/ GateNext
    \/ ClickNav
    \/ ContentAssert
    \/ IsVisible
    \/ ExpectBannerVisible
    \/ Analyze
    \/ FilterLog
    \/ Expect

SuiteSpec == SuiteInit /\ [][SuiteNext]_vars

----------------------------------------------------------------------------
(* Scenarios running in parallel.  Every test and hook of the suite takes  *)
(* its page from the runner, async ({ page }) => ..., which creates a new  *)
(* browser context and page for each scenario and closes them at its end;  *)
(* the helpers act on the page they are passed and keep no state of their  *)
(* own.  A worker runs one scenario at a time: navigation, the gate, the   *)
(* test body.  The consent lives in the page's browser context.            *)

gateVars == <<scenario, contextName, program, helperCopy, dismissCopy, stack,
              exc, outcome, pageVars, elapsed, clicks, ret, histVars,
              isBannerVisible, auditVars>>

soloVars == <<gateVars, inspVars>>

\* a runner that hands every scenario the same page
PageOf_shared(t) == 1

\* the page fixture: scenario number t gets a page of its own
PageOf(t) == t

InGateOf(w) == wpc[w] \in {"waitVisible", "click", "waitHidden"}

\* the runner starts the next scenario on an idle worker
StartScenario(w) ==
    /\ wpc[w] = "idle"
    /\ started < MaxTests
    /\ started' = started + 1
    /\ testOf' = [testOf EXCEPT ![w] = started + 1]
    /\ handle' = [handle EXCEPT ![w] = PageOf(started + 1)]
    /\ wpc' = [wpc EXCEPT ![w] = "goto"]
    /\ UNCHANGED <<sitePages, soloVars>>

\* await page.goto(...) in beforeEach: the document is loaded, with no
\* banner yet
ParGoto(w) ==
    /\ wpc[w] = "goto"
    /\ sitePages' = [sitePages EXCEPT ![handle[w]].banner = "absent"]
    /\ wpc' = [wpc EXCEPT ![w] = "waitVisible"]
    /\ UNCHANGED <<started, testOf, handle, soloVars>>

\* the visible-wait of the gate resolves, or rejects and the gate ends
ParWaitVisible(w) ==
    /\ wpc[w] = "waitVisible"
    /\ wpc' = [wpc EXCEPT ![w] =
                  IF sitePages[handle[w]].banner = "visible" THEN "click"
                  ELSE "body"]
    /\ UNCHANGED <<started, testOf, handle, sitePages, soloVars>>

\* the click of the gate: the consent is recorded in the page's context
ParClick(w) ==
    /\ wpc[w] = "click"
    /\ IF sitePages[handle[w]].banner = "visible"
       THEN /\ sitePages' = [sitePages EXCEPT ![handle[w]].consent = TRUE,
                                               ![handle[w]].consentBy = testOf[w]]
            /\ wpc' = [wpc EXCEPT ![w] = "waitHidden"]
       ELSE /\ wpc' = [wpc EXCEPT ![w] = "body"]
            /\ UNCHANGED sitePages
    /\ UNCHANGED <<started, testOf, handle, soloVars>>

\* the hidden-wait of the gate resolves or rejects: the gate ends
ParWaitHidden(w) ==
    /\ wpc[w] = "waitHidden"
    /\ wpc' = [wpc EXCEPT ![w] = "body"]
    /\ UNCHANGED <<started, testOf, handle, sitePages, soloVars>>

\* the test body ends; the runner closes the scenario's page and context
FinishScenario(w) ==
    /\ wpc[w] = "body"
    /\ wpc' = [wpc EXCEPT ![w] = "idle"]
    /\ testOf' = [testOf EXCEPT ![w] = 0]
    /\ handle' = [handle EXCEPT ![w] = 0]
    /\ UNCHANGED <<started, sitePages, soloVars>>

\* the site renders the banner in a page whose context holds no consent
ParBannerAppears(p) ==
    /\ \E w \in Workers : handle[w] = p /\ wpc[w] /= "goto"
    /\ sitePages[p].banner = "absent"
    /\ ~sitePages[p].consent
    /\ sitePages' = [sitePages EXCEPT ![p].banner = "visible"]
    /\ UNCHANGED <<started, testOf, handle, wpc, soloVars>>

\* the site removes the banner of a page whose context holds the consent
ParBannerHides(p) ==
    /\ sitePages[p].banner = "visible"
    /\ sitePages[p].consent
    /\ sitePages' = [sitePages EXCEPT ![p].banner = "hidden"]
    /\ UNCHANGED <<started, testOf, handle, wpc, soloVars>>

ParInit ==
    /\ scenario = "parallel"
    /\ contextName = "none"
    /\ program = <<>>
    /\ helperCopy = "utils"
    /\ dismissCopy = "utils"
    /\ InitCommon

ParNext ==
    \/ \E w \in Workers : StartScenario(w)
    \/ \E w \in Workers : ParGoto(w)
    \/ \E w \in Workers : ParWaitVisible(w)
    \/ \E w \in Workers : ParClick(w)
    \/ \E w \in Workers : ParWaitHidden(w)
    \/ \E w \in Workers : FinishScenario(w)
    \/ \E p \in 1..MaxTests : ParBannerAppears(p)
    \/ \E p \in 1..MaxTests : ParBannerHides(p)

ParallelSpec == ParInit /\ [][ParNext]_vars

----------------------------------------------------------------------------
(* The site inspector, src/inspect-site.ts: main launches a browser, calls *)
(* inspectPage for every entry of PAGES inside a try/catch, and closes the *)
(* browser.                                                                *)

\* an error line that does not name the page
ErrorLine_noName(p, err) == [page |-> "none", err |-> err]

\* console.error(`ERROR on ${p.name}: ${err}`)
ErrorLine(p, err) == [page |-> p.name, err |-> err]

\* a statement of main before the loop resolves, or rejects; nothing
\* catches the rejection and main ends there
MainStep(at, next) ==
    /\ ipc = at
    /\ \/ ipc' = next
       \/ ipc' = "crashed"

\* fs.mkdirSync("inspector-screenshots", { recursive: true })
Mkdir ==
    /\ MainStep("mkdir", "launch")
    /\ UNCHANGED <<idx, istep, launched, closeCalled, attempted, failedOn,
                   errLog, gateVars, parVars>>

\* const browser = await chromium.launch({ headless: true })
Launch ==
    /\ MainStep("launch", "newContext")
    /\ launched' = (ipc' = "newContext")
    /\ UNCHANGED <<idx, istep, closeCalled, attempted, failedOn, errLog,
                   gateVars, parVars>>

\* const context = await browser.newContext({ viewport: ... })
NewContext ==
    /\ MainStep("newContext", "newPage")
    /\ UNCHANGED <<idx, istep, launched, closeCalled, attempted, failedOn,
                   errLog, gateVars, parVars>>

\* const page = await context.newPage()
NewPage ==
    /\ MainStep("newPage", "loop")
    /\ UNCHANGED <<idx, istep, launched, closeCalled, attempted, failedOn,
                   errLog, gateVars, parVars>>

\* for (const p of PAGES) { try { await inspectPage(page, p.name, p.path)
LoopNext ==
    /\ ipc = "loop"
    /\ IF idx <= Len(PAGES)
       THEN /\ ipc' = "inspect"
            /\ istep' = 1
            /\ attempted' = Append(attempted, PAGES[idx].name)
       ELSE /\ ipc' = "close"
            /\ UNCHANGED <<istep, attempted>>
    /\ UNCHANGED <<idx, launched, closeCalled, failedOn, errLog, gateVars,
                   parVars>>

\* an awaited step of inspectPage resolves, or rejects and inspectPage
\* throws to the try block of main
InspectStep ==
    /\ ipc = "inspect"
    /\ istep <= Len(InspectPageBody)
    /\ \/ /\ istep' = istep + 1
          /\ UNCHANGED <<ipc, failedOn>>
       \/ /\ ipc' = "catch"
          /\ failedOn' = Append(failedOn, attempted[Len(attempted)])
          /\ UNCHANGED istep
    /\ UNCHANGED <<idx, launched, closeCalled, attempted, errLog, gateVars,
                   parVars>>

\* inspectPage returns: the loop goes on to the next entry
InspectReturn ==
    /\ ipc = "inspect"
    /\ istep > Len(InspectPageBody)
    /\ ipc' = "loop"
    /\ idx' = idx + 1
    /\ UNCHANGED <<istep, launched, closeCalled, attempted, failedOn, errLog,
                   gateVars, parVars>>

\* } catch (err) { console.error(...) }: the loop goes on to the next entry
CatchError ==
    /\ ipc = "catch"
    /\ errLog' = Append(errLog, ErrorLine(PAGES[idx], "Error"))
    /\ ipc' = "loop"
    /\ idx' = idx + 1
    /\ UNCHANGED <<istep, launched, closeCalled, attempted, failedOn, gateVars,
                   parVars>>

\* await browser.close(); console.log("DONE ...")
Close ==
    /\ MainStep("close", "exited")
    /\ closeCalled' = TRUE
    /\ UNCHANGED <<idx, istep, launched, attempted, failedOn, errLog,
                   gateVars, parVars>>

InspectorInit ==
    /\ scenario = "inspector"
    /\ contextName = "none"
    /\ program = <<>>
    /\ helperCopy = "utils"
    /\ dismissCopy = "utils"
    /\ InitCommon

InspectorNext ==
    \/ Mkdir
    \/ Launch
    \/ NewContext
    \/ NewPage
    \/ LoopNext
    \/ InspectStep
    \/ InspectReturn
    \/ CatchError
    \/ Close

\* the script runs on for as long as it has a statement to run
InspectorSpec ==
    InspectorInit /\ [][InspectorNext]_vars /\ WF_vars(InspectorNext)

----------------------------------------------------------------------------
(* Properties.                                                             *)

RECURSIVE CountImpact(_, _)
CountImpact(F, imp) ==
    IF F = <<>> THEN 0
    ELSE (IF Head(F).impact = imp THEN 1 ELSE 0) + CountImpact(Tail(F), imp)

Audited == results /= NoResults

\* C1: once the analyzer has returned its findings, checkA11y passes if and
\* only if none of them has impact 'critical'; serious, moderate, minor and
\* impact-less findings never make it fail, whatever their number.
C1_PassIffNoCritical ==
    /\ verdict /= "none" =>
          (verdict = "pass" <=> CountImpact(results, "critical") = 0)
    /\ ret["checkA11y"] = "returned" => verdict = "pass"
    /\ (ret["checkA11y"] = "threw" /\ Audited) =>
          (verdict = "fail" /\ CountImpact(results, "critical") > 0)

\* an audit that passed with findings, all of them below critical
C1_Witness ==
    /\ ret["checkA11y"] = "returned"
    /\ Len(results) >= 2
    /\ CountImpact(results, "serious") >= 1

C3_AbsenceIsBenign ==
    /\ exc = "visibleTimeout" =>
          /\ stack /= <<>>
          /\ Top.fn = "dismissCookieBanner"
          /\ elapsed = VisibleTimeout
          /\ clicks = 0
    /\ thrown /= "visibleTimeout"
    /\ (swallowed = "visibleTimeout" /\ ~InGate) =>
          /\ ret["dismissCookieBanner"] = "returned"
          /\ bannerAtReturn /= "none"
          /\ clicks = 0

\* a gate call that ended normally after its visible-wait timed out
C3_Witness ==
    /\ swallowed = "visibleTimeout"
    /\ ~InGate
    /\ ret["dismissCookieBanner"] = "returned"
    /\ bannerAtReturn = "absent"

\* C4: setupBaseState never propagates a failure to the calling test.
C4_GateNeverThrows == ret["setupBaseState"] /= "threw"

\* C5: the only errors the gate discards are the timeouts of its two
\* waits; every other failure inside it reaches the caller.
C5_OnlyAbsenceSwallowed ==
    swallowed \in {"none", "visibleTimeout", "hiddenTimeout"}

DismissalErrors == Timeouts \cup {"clickError", "pageError"}

\* C5 as amended: every failure raised by the three steps of
\* dismissCookieBanner, a timeout of a wait or any other rejection of a
\* wait or of the click, stays inside it; dismissCookieBanner never throws.
C5_EveryDismissalErrorSwallowed ==
    /\ ret["dismissCookieBanner"] /= "threw"
    /\ thrown \notin DismissalErrors
    /\ exc \in DismissalErrors =>
          (stack /= <<>> /\ Top.fn = "dismissCookieBanner")

\* a gate call that ended normally after its click had failed
C5_Witness ==
    /\ swallowed = "clickError"
    /\ ~InGate
    /\ ret["dismissCookieBanner"] = "returned"
    /\ bannerAtReturn = "visible"

C7_GateBeforeAnalysis ==
    (CurStep = "analyze" \/ Audited) =>
        /\ gateDone
        /\ ret["setupBaseState"] = "returned"
        /\ ~InGate

\* an analysis that ran after the gate ended by the benign timeout
C7_Witness ==
    /\ Audited
    /\ swallowed = "visibleTimeout"
    /\ ret["setupBaseState"] = "returned"

\* C8: a document loaded after setupBaseState returned has the click
\* visualizer installed (style, cursor element and four listeners).
C8_RearmedAfterNavigation == armedDoc => Installed(doc)

\* C9: after setupBaseState was called twice on the same document, neither
\* call raised, the visualizer is installed exactly once, and the call that
\* found the banner already dismissed clicked nothing.
C9_TwiceIsOnce ==
    (setupsOnDoc >= 2 /\ ~InGate) =>
        /\ ret["setupBaseState"] = "returned"
        /\ Installed(doc)
        /\ bannerAtCall = "hidden" => clicks = 0

\* C10: every audit run has emitted a log record when its expect is
\* evaluated, whatever the number of findings.
C10_AlwaysLogs ==
    (CurStep = "expect" \/ verdict /= "none") => Len(log) >= 1

\* C10 as amended: an audit run with at least one finding has emitted
\* exactly one log record, naming its page, when its expect is evaluated,
\* whether it passes or fails; a run with no finding has emitted none.
C10_LogsIffFindings ==
    (CurStep = "expect" \/ verdict /= "none") =>
        IF Len(results) > 0
        THEN Len(log) = 1 /\ log[1].context = contextName
        ELSE log = <<>>

\* a failed audit with its record in the log
C10_Witness ==
    /\ verdict = "fail"
    /\ Len(log) = 1
    /\ outcome = "failed"

Severities == {"minor", "moderate", "serious", "critical"}

SeverityCounts(F) ==
    CountImpact(F, "minor") + CountImpact(F, "moderate")
        + CountImpact(F, "serious") + CountImpact(F, "critical")

\* C11: every record checkA11y logs carries the total, the critical and the
\* serious finding counts and the per-finding details (rule id,
\* description, help reference, nodes).
C11_RecordHasCountsAndDetails ==
    \A i \in 1..Len(log) :
        /\ {"total", "critical", "serious", "findings"} \subseteq DOMAIN log[i]
        /\ log[i].total = Len(results)

\* C11 as amended: every record checkA11y logs carries the page context
\* name and the total finding count, and nothing else.
C11_RecordHasContextAndTotal ==
    \A i \in 1..Len(log) :
        /\ DOMAIN log[i] = {"context", "total"}
        /\ log[i].context = contextName
        /\ log[i].total = Len(results)

\* the record of an audit with a critical and a serious finding
C11_Witness ==
    /\ Len(log) = 1
    /\ CountImpact(results, "critical") >= 1
    /\ CountImpact(results, "serious") >= 1
    /\ log[1].total = Len(results)

C13_FailureNamesPageAndCount ==
    /\ verdict = "fail" =>
          /\ failure.context = contextName
          /\ failure.received = CountImpact(results, "critical")
          /\ failure.received > 0
          /\ failure.expected = 0
    /\ verdict /= "fail" => failure = "none"

\* a failed audit of the About page with two critical findings
C13_Witness ==
    /\ verdict = "fail"
    /\ contextName = "About Page"
    /\ failure.received = 2
    /\ outcome = "failed"

\* a call of dismissCookieBanner is on the stack
InDismiss == \E i \in 1..Len(stack) : stack[i].fn = "dismissCookieBanner"

\* C14: every call of dismissCookieBanner returns, whatever the banner
\* does; its visible-wait never lasts more than 5 s and its hidden-wait
\* never more than 3 s.
C14_DismissReturns ==
    /\ [](CurStep = "waitVisible" => elapsed <= VisibleTimeout)
    /\ [](CurStep = "waitHidden" => elapsed <= HiddenTimeout)
    /\ [](exc = "visibleTimeout" => elapsed = VisibleTimeout)
    /\ [](exc = "hiddenTimeout" => elapsed = HiddenTimeout)
    /\ InDismiss ~> (~InDismiss /\ ret["dismissCookieBanner"] = "returned")

\* a call that returned although the banner it clicked never went away
C14_Witness ==
    /\ ~InDismiss
    /\ ret["dismissCookieBanner"] = "returned"
    /\ swallowed = "hiddenTimeout"
    /\ clicks = 1
    /\ banner = "visible"

\* C15: within one gate call the click comes only once the control was
\* seen visible and at most once, the hidden-wait starts only after the
\* click succeeded, and a call that found the control visible, clicked it
\* and saw it hide returns normally with the banner gone.
C15_VisibleClickHidden ==
    /\ clicks <= 1
    /\ CurStep = "click" => (sawVisible /\ clicks = 0)
    /\ clicks = 1 => sawVisible
    /\ CurStep = "waitHidden" => (clicks = 1 /\ consent)
    /\ exc = "hiddenTimeout" => clicks = 1
    /\ (bannerAtCall = "visible" /\ bannerAtReturn /= "none"
          /\ clicks = 1 /\ swallowed = "none") =>
            /\ bannerAtReturn = "hidden"
            /\ ret["dismissCookieBanner"] = "returned"
            /\ thrown = "none"

\* a direct call that found the banner up, clicked it and waited it out
C15_Witness ==
    /\ bannerAtCall = "visible"
    /\ ret["setupBaseState"] = "none"
    /\ ret["dismissCookieBanner"] = "returned"
    /\ clicks = 1
    /\ swallowed = "none"
    /\ bannerAtReturn = "hidden"
    /\ ~InGate

VerdictOf(F) == IF ExpectPasses(CriticalOf(F)) THEN "pass" ELSE "fail"

\* the verdicts of all finding lists that hold n critical findings
VerdictsByCount ==
    [n \in 0..MaxFindings |->
        {VerdictOf(G) : G \in {H \in FindingLists :
                                  CountImpact(H, "critical") = n}}]

\* C17: the verdict of an audit is the one every audit gives that receives
\* the same finding list, or any list with as many critical findings.
C17_VerdictDeterministic ==
    verdict /= "none" =>
        /\ verdict = VerdictOf(results)
        /\ VerdictsByCount[CountImpact(results, "critical")] = {verdict}

\* a failed audit whose only critical finding is the last of its list
C17_Witness ==
    /\ verdict = "fail"
    /\ Len(results) = MaxFindings
    /\ CountImpact(results, "critical") = 1
    /\ results[MaxFindings].impact = "critical"
    /\ results[1].impact = "minor"

\* the running function is dismissCookieBanner
RunningDismiss == stack /= <<>> /\ Top.fn = "dismissCookieBanner"

\* C18: as long as the control has not been visible during a call of
\* dismissCookieBanner, up to and including the call's last step, the call
\* has clicked nothing and the page is as it was when the call began: the
\* banner, the consent, the document's instrumentation, the init scripts.
C18_NoBannerNoEffect ==
    (RunningDismiss /\ ~sawVisible) =>
        /\ clicks = 0
        /\ PageState = pageAtCall

\* a call on an instrumented page about to return after the control stayed
\* away for the whole visible-wait
C18_Witness ==
    /\ RunningDismiss
    /\ Running
    /\ AtEnd
    /\ ~sawVisible
    /\ swallowed = "visibleTimeout"
    /\ Installed(doc)
    /\ initScripts = 1

\* setupBaseState is on the stack
InSetup == \E i \in 1..Len(stack) : stack[i].fn = "setupBaseState"

\* C19: when setupBaseState comes to click the 'allow all' control, the
\* click visualizer of the copy in use is active in the current document.
C19_VisualizerActiveAtClick ==
    (InSetup /\ CurStep = "click") => Active(helperCopy, doc)

\* C20: the scenario 'cookie banner may appear with consent options' fails
\* only when its navigation fails: once the page is loaded it passes,
\* with the banner shown or not, and its assertion never fails.
C20_BannerTestPasses ==
    scenario = "cookieBanner" =>
        /\ exc \in {"none", "navigationError"}
        /\ outcome = "failed" => exc = "navigationError"
        /\ (outcome = "passed" /\ asserted) => (isBannerVisible /\ banner = "visible")

\* the scenario passed on a page that showed the banner
C20_Witness ==
    /\ scenario = "cookieBanner"
    /\ outcome = "passed"
    /\ isBannerVisible
    /\ asserted
    /\ banner = "visible"

\* C21: in every document the installed flag of the visualizer of utils.ts
\* is set only when the style, the cursor element and the four listeners
\* are installed.
C21_FlagMeansInstalled ==
    (helperCopy = "utils" /\ doc.flag) => Installed(doc)

\* what is installed in document d is installed once
AtMostOnce(copy, d) ==
    IF copy = "utils"
    THEN d.style <= 1 /\ d.cursor <= 1 /\ d.listeners <= 4
    ELSE d.style = 0 /\ d.cursor = 0 /\ d.listeners <= 1

\* C22: whatever setupBaseState calls and navigations came before, the
\* document holds at most one cursor and one set of listeners; every init
\* script registered so far ran in the document when it was loaded, one
\* per setupBaseState call that registered.
C22_OneInstallManyRuns ==
    /\ AtMostOnce(helperCopy, doc)
    /\ loadedWith <= initScripts
    /\ initScripts - loadedWith <= setupsOnDoc
    /\ doc.runs >= loadedWith
    /\ doc.runs <= loadedWith + setupsOnDoc
    /\ (setupsOnDoc = 0 /\ CurStep /= "goto") => doc.runs = loadedWith
    /\ (setupsOnDoc = 1 /\ ~InSetup /\ ret["setupBaseState"] = "returned") =>
          initScripts = loadedWith + 1

\* a document in which the script of utils.ts ran twice at load time and
\* installed one cursor
C22_Witness ==
    /\ helperCopy = "utils"
    /\ loadedWith = 2
    /\ doc.runs = 2
    /\ doc.cursor = 1
    /\ doc.listeners = 4

\* C23: at every point of a call, each copy of dismissCookieBanner is
\* where the copy of utils.ts would be after the same answers of the page:
\* it issues the same operation with the same timeout, ends where that copy
\* ends, hands every exception to its handler and never throws.  The page
\* answers an operation the same way whichever copy issued it, so the
\* copies issue the same sequences and end in the same outcomes.
C23_CopiesInLockstep ==
    /\ RunningDismiss =>
          /\ Top.ip <= Len(UtilsDismissCookieBanner.steps) + 1
          /\ AtEnd <=> Top.ip = Len(UtilsDismissCookieBanner.steps) + 1
          /\ CurStep /= "none" =>
                /\ CurStep = UtilsDismissCookieBanner.steps[Top.ip]
                /\ CurStep = "waitVisible" =>
                      Timeout(CurStep) = UtilsDismissCookieBanner.visible
                /\ CurStep = "waitHidden" =>
                      Timeout(CurStep) = UtilsDismissCookieBanner.hidden
          /\ exc /= "none" =>
                (Handles(Top.fn, exc) <=> UtilsDismissCookieBanner.catchAll)
    /\ exc = "visibleTimeout" => elapsed = UtilsDismissCookieBanner.visible
    /\ exc = "hiddenTimeout" => elapsed = UtilsDismissCookieBanner.hidden
    /\ ret["dismissCookieBanner"] /= "threw"

\* the copy of part_000 returned after its hidden-wait had timed out
C23_Witness ==
    /\ dismissCopy = "part_000"
    /\ swallowed = "hiddenTimeout"
    /\ ret["dismissCookieBanner"] = "returned"
    /\ bannerAtReturn = "visible"
    /\ ~InGate

\* C24: the inspector calls inspectPage for the entries of PAGES in list
\* order, each once, whatever the earlier calls did, and has called it for
\* all of them when it comes to close the browser; every call that threw
\* has its line in the error log, with the name of its page.
C24_CrawlGoesOn ==
    /\ Len(attempted) <= Len(PAGES)
    /\ attempted = SubSeq(PageNames, 1, Len(attempted))
    /\ ipc \in {"inspect", "catch"} => Len(attempted) = idx
    /\ ipc = "loop" => Len(attempted) = idx - 1
    /\ ipc \in {"close", "exited"} => attempted = PageNames
    /\ closeCalled => attempted = PageNames
    /\ Len(errLog) = Len(failedOn) - (IF ipc = "catch" THEN 1 ELSE 0)
    /\ \A i \in 1..Len(errLog) : errLog[i].page = failedOn[i]

\* a crawl that went through the whole list after its first and its last
\* page had failed
C24_Witness ==
    /\ ipc = "exited"
    /\ attempted = PageNames
    /\ Len(errLog) = 2
    /\ errLog[1].page = "Homepage"
    /\ errLog[2].page = "NewsAndPublications"

\* C25: once the browser is launched, browser.close is eventually called.
C25_BrowserClosed == launched ~> closeCalled

====
